---- MODULE Spec2Model ----
(***************************************************************************)
(* Model of the scatter/gather assembly in                                 *)
(* sawari/spiders/car_details_spider.py (CarDetailsSpider).                *)
(*                                                                         *)
(* One car_data dictionary per car is created by start_requests and passed *)
(* by reference through request meta.  parse_first_page is a generator: it *)
(* registers a data key in _pending_tabs and yields one tab request per    *)
(* resumption, so the engine may deliver other responses between two       *)
(* resumptions.  Every callback and errback runs to completion on the      *)
(* single reactor thread, so each of them is one atomic action.            *)
(***************************************************************************)
EXTENDS Integers, Sequences, FiniteSets, TLC

\* ------------------------------------------------------------------ bounds
\* Longest list of tabs ("ul.flex.gap-9 li a") on a first page when
\* cars_data.json lists one car.
MaxTabs == 3

\* Longest list of tabs on a first page when cars_data.json lists two cars.
MaxTabsTwoCars == 1

\* ------------------------------------------------------------ input domains
\* The cars that cars_data.json may list, in file order.
AllCars == <<"c1", "c2">>

CarIds == {AllCars[n] : n \in 1..Len(AllCars)}

\* Tab identifiers that the modelled first pages may carry: two plain tabs,
\* two tabs that tab_mapping sends to the same data key, the two skipped
\* tabs and a tab that tab_mapping does not know.  An id occurs once on a
\* page, and no tab id is one of car_data's own keys "base_info" and
\* "_pending_tabs", so the collected fields are kept apart from those two.
PageTabIds == {"price", "specs", "mileage", "range", "model", "compare", "faq"}

\* str(failure.value) of a failed request.
ErrorTexts == {"timeout"}

\* The lists of at most n tabs with ids from S; an id occurs once on a page.
RECURSIVE TabLists(_, _)
TabLists(S, n) ==
    IF n = 0 THEN {<<>>}
    ELSE LET shorter == TabLists(S, n - 1)
             longest == {t \in shorter : Len(t) = n - 1}
         IN  shorter \cup
             UNION {{Append(t, x) : x \in S \ {t[i] : i \in 1..Len(t)}} : t \in longest}

Pages == TabLists(PageTabIds, MaxTabs)

\* First pages of the runs with two cars: a plain tab and an unknown tab.
TwoCarsTabIds == {"specs", "faq"}

TwoCarsPages == TabLists(TwoCarsTabIds, MaxTabsTwoCars)

\* First pages of the runs in which two cars have the same tabs: the two
\* tabs that tab_mapping sends to one data key.
TwinTabIds == {"mileage", "range"}

TwinPages == TabLists(TwinTabIds, MaxTabs)

\* ------------------------------------------------------------------ values
None == [kind |-> "None"]

EmptyDict == [k \in {} |-> None]

\* The record of one car as CarsSpider.parse_cars yields it.
BaseKeys ==
    {"brand", "name", "detail_url", "price_range", "specifications",
     "key_features", "images", "video_thumbnail"}

BaseInfo(c) == [k \in BaseKeys |-> [kind |-> "base", car |-> c, key |-> k]]

\* The data keys that start_requests presets to None.
PresetKeys ==
    {"price", "specifications", "variants", "colours", "mileage", "reviews", "gallery"}

NewCarData(c) ==
    [base_info |-> BaseInfo(c),
     fields    |-> [k \in PresetKeys |-> None],
     pending   |-> {}]

NoCarData == [base_info |-> EmptyDict, fields |-> EmptyDict, pending |-> {}]

\* ------------------------------------------------------------- tab mapping
SkippedTabs == {"model", "compare"}

tab_mapping ==
    [specs    |-> <<"specifications", "parse_specifications">>,
     price    |-> <<"price", "parse_price">>,
     variants |-> <<"variants", "parse_variants">>,
     colours  |-> <<"colours", "parse_colours">>,
     reviews  |-> <<"reviews", "parse_reviews">>,
     gallery  |-> <<"gallery", "parse_gallery">>,
     mileage  |-> <<"mileage", "parse_mileage">>,
     range    |-> <<"mileage", "parse_mileage">>,
     model    |-> <<"base_info", "None">>,
     compare  |-> <<"compare", "None">>]

\* tab_mapping.get(tab_id, (tab_id, self.parse_unknown))
TabLookup(tab_id) ==
    IF tab_id \in DOMAIN tab_mapping THEN tab_mapping[tab_id]
    ELSE <<tab_id, "parse_unknown">>

DataKey(tab_id) == TabLookup(tab_id)[1]

Parser(tab_id) == TabLookup(tab_id)[2]

\* A tab of the first page for which a request is yielded.
DispatchableAny(tab_id) == TRUE

Dispatchable(tab_id) == tab_id \notin SkippedTabs /\ Parser(tab_id) # "None"

\* response.urljoin(href): the tab's own page of the car.
TabUrl(c, tab_id) == <<c, tab_id>>

\* What parser_func returns for the response of a URL.
Extracted(parser, url) ==
    IF parser = "parse_unknown" THEN [error |-> "Unknown tab type"]
    ELSE [kind |-> "data", parser |-> parser, url |-> url]

\* parse_unknown's lambda ignores the response; the extractors read it with
\* response.css, which raises on a response that is not text.
CanRaiseAny(parser) == TRUE

CanRaise(parser) == parser # "parse_unknown"

ErrorPlaceholderWithoutUrl(text, url) == [error |-> text]

ErrorPlaceholder(text, url) == [error |-> text, url |-> url]

\* ------------------------------------------------------------------- state
VARIABLES
    cars,       \* the list loaded from cars_data.json
    site,       \* car -> the tab ids on its first page, in document order
    started,    \* how many cars start_requests has yielded a request for
    pc,         \* car -> position of the parse_first_page generator
    idx,        \* car -> index of the last tab parse_first_page has visited
    car_data,   \* car -> the shared car_data dictionary
    req,        \* car -> request -> state of the request (0: first page,
                \*        j >= 1: the request yielded for tab j)
    emitted,    \* car -> the records yielded for it so far, in order
    logged,     \* car -> requests whose failure handle_error has logged
    last_write  \* car -> data key -> which completion last wrote the key:
                \*        the request, callback or errback, the failure text

vars == <<cars, site, started, pc, idx, car_data, req, emitted, logged, last_write>>

TabIndexes(c) == 1..Len(site[c])

Requests(c) == 0..Len(site[c])

\* The meta dictionary of a request: the first-page request carries only
\* car_data, a tab request carries car_data and data_key.
MetaSharedCarData(c, j) ==
    IF j = 0 THEN [car_data |-> AllCars[1]]
    ELSE [car_data |-> AllCars[1], data_key |-> DataKey(site[c][j])]

Meta(c, j) ==
    IF j = 0 THEN [car_data |-> c]
    ELSE [car_data |-> c, data_key |-> DataKey(site[c][j])]

\* The URL of a request: the car's price page, or the tab's page.
Url(c, j) == IF j = 0 THEN <<c, "price">> ELSE TabUrl(c, site[c][j])

\* ------------------------------------------------------- finalize_car_data
\* {**final_data["base_info"], **final_data} without base_info and
\* _pending_tabs: the collected entry replaces the base entry of a key.
MergeBaseWins(base, fields) ==
    [k \in (DOMAIN base) \cup (DOMAIN fields) |->
        IF k \in DOMAIN base THEN base[k] ELSE fields[k]]

Merge(base, fields) ==
    [k \in (DOMAIN base) \cup (DOMAIN fields) |->
        IF k \in DOMAIN fields THEN fields[k] ELSE base[k]]

FinalizeWithoutEmptyCheck(cd) == Merge(cd.base_info, cd.fields)

finalize_car_data(cd) ==
    IF cd.pending = {} THEN Merge(cd.base_info, cd.fields) ELSE None

\* "if final_data:" - None and the empty dict are falsy.
Truthy(final_data) == final_data # None /\ DOMAIN final_data # {}

\* ---------------------------------------------------------- start_requests
\* One resumption of the start_requests generator: the next car of the list
\* gets its car_data and its first-page request.
start_requests ==
    /\ started < Len(cars)
    /\ LET c == cars[started + 1]
       IN  /\ car_data' = [car_data EXCEPT ![c] = NewCarData(c)]
           /\ req' = [req EXCEPT ![c][0] = "inflight"]
    /\ started' = started + 1
    /\ UNCHANGED <<cars, site, pc, idx, emitted, logged, last_write>>

\* -------------------------------------------------------- parse_first_page
\* The first-page response arrives and the callback is called: this creates
\* the generator, whose body runs only when the engine resumes it.
parse_first_page(c) ==
    /\ req[c][0] = "inflight"
    /\ req' = [req EXCEPT ![c][0] = "callback"]
    /\ pc' = [pc EXCEPT ![c] = "parsing"]
    /\ idx' = [idx EXCEPT ![c] = 0]
    /\ UNCHANGED <<cars, site, started, car_data, emitted, logged, last_write>>

\* The tabs after position i for which the loop yields a request.
NextDispatch(c, i) == {j \in TabIndexes(c) : j > i /\ Dispatchable(site[c][j])}

Min(S) == CHOOSE x \in S : \A y \in S : x <= y

\* One resumption of the generator: run the loop up to the next yield, or to
\* its end.
parse_first_page_next(c) ==
    /\ pc[c] = "parsing"
    /\ IF NextDispatch(c, idx[c]) = {}
       THEN /\ pc' = [pc EXCEPT ![c] = "done"]
            /\ idx' = [idx EXCEPT ![c] = Len(site[c])]
            /\ UNCHANGED <<car_data, req>>
       ELSE LET j == Min(NextDispatch(c, idx[c]))
                owner == Meta(c, 0).car_data
            IN  /\ car_data' = [car_data EXCEPT
                                   ![owner].pending = @ \cup {Meta(c, j).data_key}]
                /\ req' = [req EXCEPT ![c][j] = "inflight"]
                /\ idx' = [idx EXCEPT ![c] = j]
                /\ UNCHANGED pc
    /\ UNCHANGED <<cars, site, started, emitted, logged, last_write>>

\* ------------------------------------------------- the tail of a completion
\* car_data[data_key] = value, then _pending_tabs.remove(data_key) (KeyError
\* when the key is not in the set), then finalize_car_data and the yield.
WriteField(cd, data_key, value) ==
    [cd EXCEPT !.fields = [k \in (DOMAIN @) \cup {data_key} |->
                              IF k = data_key THEN value ELSE @[k]]]

RemovePendingClearsAll(cd, data_key) == [cd EXCEPT !.pending = {}]

RemovePending(cd, data_key) == [cd EXCEPT !.pending = @ \ {data_key}]

\* car_data[data_key] = value as the records yielded earlier see it.  A
\* yielded record is the dict built at line 100 from dict(car_data) of line
\* 96, a new object at every call and never car_data itself, so the item
\* assignment does not reach it.
StoreReachesYielded(records, data_key, value) ==
    [n \in DOMAIN records |->
        [k \in (DOMAIN records[n]) \cup {data_key} |->
            IF k = data_key THEN value ELSE records[n][k]]]

StoreInYielded(records, data_key, value) == records

Complete(c, j, value, via, text) ==
    LET owner    == Meta(c, j).car_data
        data_key == Meta(c, j).data_key
        written  == WriteField(car_data[owner], data_key, value)
        yielded  == StoreInYielded(emitted[owner], data_key, value)
    IN  /\ last_write' = [last_write EXCEPT ![owner] =
                             [k \in (DOMAIN @) \cup {data_key} |->
                                 IF k = data_key THEN [by |-> j, via |-> via, text |-> text]
                                 ELSE @[k]]]
        /\ IF data_key \notin written.pending
           THEN /\ car_data' = [car_data EXCEPT ![owner] = written]
                /\ req' = [req EXCEPT ![c][j] = via \o "_KeyError"]
                /\ emitted' = [emitted EXCEPT ![owner] = yielded]
           ELSE LET removed    == RemovePending(written, data_key)
                    final_data == finalize_car_data(removed)
                IN  /\ car_data' = [car_data EXCEPT ![owner] = removed]
                    /\ req' = [req EXCEPT ![c][j] = via]
                    /\ emitted' = [emitted EXCEPT ![owner] =
                                      IF Truthy(final_data)
                                      THEN Append(yielded, final_data)
                                      ELSE yielded]

\* ------------------------------------------------------------- process_tab
\* The callback of a tab request (parse_price, ..., parse_unknown) on its
\* response: either parser_func raises and nothing is written, or its value
\* is written and the completion runs.
process_tab(c, j) ==
    /\ j \in TabIndexes(c)
    /\ req[c][j] = "inflight"
    /\ LET parser == Parser(site[c][j])
       IN  \/ Complete(c, j, Extracted(parser, Url(c, j)), "callback", "")
           \/ /\ CanRaise(parser)
              /\ req' = [req EXCEPT ![c][j] = "callback_ParserError"]
              /\ UNCHANGED <<car_data, emitted, last_write>>
    /\ UNCHANGED <<cars, site, started, pc, idx, logged>>

\* ------------------------------------------------------------ handle_error
\* The errback of any request.  failure.request.meta["data_key"] raises
\* KeyError for the first-page request, before anything is logged.
handle_error(c, j) ==
    /\ j \in Requests(c)
    /\ req[c][j] = "inflight"
    /\ IF "data_key" \notin DOMAIN Meta(c, j)
       THEN /\ req' = [req EXCEPT ![c][j] = "errback_KeyError"]
            /\ UNCHANGED <<car_data, emitted, logged, last_write>>
       ELSE \E text \in ErrorTexts :
              /\ logged' = [logged EXCEPT ![c] = @ \cup {j}]
              /\ Complete(c, j, ErrorPlaceholder(text, Url(c, j)), "errback", text)
    /\ UNCHANGED <<cars, site, started, pc, idx>>

\* ------------------------------------------------------------ specification
\* cars_data.json lists one car with any modelled first page, or two cars
\* with short first pages, or two cars whose first pages show the same tabs.
Inputs ==
    {[cars |-> <<AllCars[1]>>,
      site |-> [c \in CarIds |-> IF c = AllCars[1] THEN p ELSE <<>>]] : p \in Pages}
    \cup
    {[cars |-> AllCars, site |-> s] : s \in [CarIds -> TwoCarsPages]}
    \cup
    {[cars |-> AllCars, site |-> [c \in CarIds |-> p]] : p \in TwinPages}

Init ==
    /\ \E input \in Inputs : cars = input.cars /\ site = input.site
    /\ started = 0
    /\ pc = [c \in CarIds |-> "none"]
    /\ idx = [c \in CarIds |-> 0]
    /\ car_data = [c \in CarIds |-> NoCarData]
    /\ req = [c \in CarIds |-> [j \in Requests(c) |-> "none"]]
    /\ emitted = [c \in CarIds |-> <<>>]
    /\ logged = [c \in CarIds |-> {}]
    /\ last_write = [c \in CarIds |-> EmptyDict]

Next ==
    \/ start_requests
    \/ \E c \in CarIds : parse_first_page(c)
    \/ \E c \in CarIds : parse_first_page_next(c)
    \/ \E c \in CarIds : \E j \in TabIndexes(c) : process_tab(c, j)
    \/ \E c \in CarIds : \E j \in Requests(c) : handle_error(c, j)

Spec == Init /\ [][Next]_vars

ReqStates ==
    {"none", "inflight", "callback", "errback", "callback_KeyError",
     "errback_KeyError", "callback_ParserError"}

TypeOK ==
    /\ started \in 0..Len(cars)
    /\ \A c \in CarIds :
         /\ pc[c] \in {"none", "parsing", "done"}
         /\ idx[c] \in 0..Len(site[c])
         /\ \A j \in Requests(c) : req[c][j] \in ReqStates
         /\ logged[c] \subseteq Requests(c)
         /\ car_data[c].pending \subseteq {DataKey(t) : t \in PageTabIds}
         /\ Len(emitted[c]) <= Len(site[c])

\* ------------------------------------------------------ vocabulary of claims
\* The sub-task requests that parse_first_page issues for a car.
SubTasks(c) == {j \in TabIndexes(c) : Dispatchable(site[c][j])}

\* The data keys discovered on the first page of a car.
DiscoveredKeys(c) == {DataKey(site[c][j]) : j \in SubTasks(c)}

\* A completion event (callback or errback) has been processed for a request.
Completed(c, j) == req[c][j] \notin {"none", "inflight"}

\* The completion of a request ran to its end: it wrote the field and removed
\* the key from _pending_tabs.
Resolved(c, j) == req[c][j] \in {"callback", "errback"}

\* The request ended in handle_error.
Failed(c, j) == req[c][j] \in {"errback", "errback_KeyError"}

\* The generator of parse_first_page is exhausted and every request it
\* yielded has had its callback or errback.
Settled(c) == pc[c] = "done" /\ \A j \in SubTasks(c) : Completed(c, j)

Last(s) == s[Len(s)]

\* This step yields a record for the car.
Emits(c) == emitted'[c] # emitted[c]

\* This step is the callback or errback of tab request j.
Completes(c, j) == req[c][j] = "inflight" /\ req'[c][j] # "inflight"

\* -------------------------------------------------------------------- C1
\* C1: at most one record is ever yielded for a car, over the whole run and
\* for every interleaving of generator resumptions, callbacks and errbacks.
C1_NoDoubleEmission == \A c \in CarIds : Len(emitted[c]) <= 1

\* -------------------------------------------------------------------- C2
\* C2: a record for a car exists only when a completion event has been
\* processed for every sub-task request parse_first_page issues for the car.
C2_NoPrematureEmission ==
    \A c \in CarIds :
        emitted[c] # <<>> => \A j \in SubTasks(c) : Completed(c, j)

\* -------------------------------------------------------------------- C3
\* C3: a car whose first page yields at least one sub-task request has
\* exactly one record once every dispatched request has ended in its
\* callback or its errback.
C3_EventualEmission ==
    \A c \in CarIds :
        (Settled(c) /\ SubTasks(c) # {}) => Len(emitted[c]) = 1

\* -------------------------------------------------------------------- C4
\* C4: a completion event whose data key is not in _pending_tabs is a no-op:
\* pending, the stored fields and the yielded records stay as they are.
C4_StaleCompletionIsNoOp ==
    [][\A c \in CarIds : \A j \in TabIndexes(c) :
          (Completes(c, j) /\ Meta(c, j).data_key \notin car_data[c].pending)
          => /\ car_data'[c].pending = car_data[c].pending
             /\ car_data'[c].fields = car_data[c].fields
             /\ emitted'[c] = emitted[c]]_vars

\* -------------------------------------------------------------------- C5
\* C5: when the first-page request of a car fails and handle_error runs for
\* it, no record is yielded for the car, one failure report is produced and
\* handle_error completes without raising.
C5_DiscoveryFailureReported ==
    \A c \in CarIds :
        Failed(c, 0) => /\ emitted[c] = <<>>
                        /\ 0 \in logged[c]
                        /\ req[c][0] = "errback"

\* -------------------------------------------------------------------- C6
\* C6: a car whose first page yields no sub-task request has one record,
\* holding only its base fields, as soon as parse_first_page has run.
C6_EmptyDiscoveryEmitsBase ==
    \A c \in CarIds :
        (pc[c] = "done" /\ SubTasks(c) = {}) => emitted[c] = <<BaseInfo(c)>>

\* -------------------------------------------------------------------- C7
\* C7: every completion event processed for a dispatched sub-task request
\* resolves its data key (writes the field and removes the key from
\* pending), whether the fetch succeeded, the fetch failed or parser_func
\* failed.
C7_EveryCompletionResolves ==
    \A c \in CarIds : \A j \in SubTasks(c) : Completed(c, j) => Resolved(c, j)

\* The outcome that the completion recorded in w delivered for its key: the
\* adapter's value of the response, or the failure's text and the URL.
Outcome(c, w) ==
    IF w.via = "callback"
    THEN Extracted(Parser(site[c][w.by]), Url(c, w.by))
    ELSE [error |-> w.text, url |-> Url(c, w.by)]

\* -------------------------------------------------------------------- C8
\* C8 as claimed: when a record is yielded, every key that is both a base
\* key and a key written by a completion carries the base value.
C8_BaseValueWins ==
    [][\A c \in CarIds :
          Emits(c) =>
             \A k \in BaseKeys \cap DOMAIN last_write'[c] :
                 Last(emitted'[c])[k] = BaseInfo(c)[k]]_vars

\* C8 as amended: when a record is yielded, every key that is both a base
\* key and a key written by a completion carries the collected value, the
\* outcome of the latest completion for the key.
C8_CollectedValueWins ==
    [][\A c \in CarIds :
          Emits(c) =>
             \A k \in BaseKeys \cap DOMAIN last_write'[c] :
                 Last(emitted'[c])[k] = Outcome(c, last_write'[c][k])]_vars

\* A record was yielded whose "specifications" is the value extracted from
\* the specs tab, where the base record has a "specifications" of its own.
C8_Witness ==
    \E c \in CarIds :
        /\ emitted[c] # <<>>
        /\ "specifications" \in BaseKeys
        /\ emitted[c][1]["specifications"]
               = Extracted("parse_specifications", TabUrl(c, "specs"))

\* -------------------------------------------------------------------- C9
\* C9 as claimed: for a car whose discovered keys K are disjoint from its
\* base keys B, a yielded record has exactly the keys of B and K, each base
\* key with its base value and each discovered key with the adapter's value
\* or with {error, url} of a request for that key.
OutcomesOf(c, k) ==
    UNION {{Extracted(Parser(site[c][j]), Url(c, j))}
              \cup {[error |-> t, url |-> Url(c, j)] : t \in ErrorTexts}
           : j \in {i \in SubTasks(c) : DataKey(site[c][i]) = k}}

C9_RecordHasBaseAndDiscoveredKeys ==
    \A c \in CarIds : \A n \in 1..Len(emitted[c]) :
        DiscoveredKeys(c) \cap BaseKeys = {} =>
            /\ DOMAIN emitted[c][n] = BaseKeys \cup DiscoveredKeys(c)
            /\ \A k \in BaseKeys : emitted[c][n][k] = BaseInfo(c)[k]
            /\ \A k \in DiscoveredKeys(c) : emitted[c][n][k] \in OutcomesOf(c, k)

\* C9 as amended: a yielded record has exactly the base keys, the seven
\* preset data keys and the keys written by a completion so far; a written
\* key carries the outcome of the latest completion for it (the adapter's
\* value, or {error: text, url: request URL}), a preset key not written
\* carries None, and every other base key carries its base value.
ExpectedRecord(c, written) ==
    [k \in BaseKeys \cup PresetKeys \cup DOMAIN written |->
        IF k \in DOMAIN written THEN Outcome(c, written[k])
        ELSE IF k \in PresetKeys THEN None
        ELSE BaseInfo(c)[k]]

C9_RecordContent ==
    [][\A c \in CarIds :
          Emits(c) => Last(emitted'[c]) = ExpectedRecord(c, last_write'[c])]_vars

\* The one record of a car holds an extracted price, the error placeholder
\* of its failed specs request, None for a preset key without a tab and the
\* base value of a key that only the base record has.
C9_Witness ==
    \E c \in CarIds :
        /\ Len(emitted[c]) = 1
        /\ Settled(c)
        /\ emitted[c][1]["price"] = Extracted("parse_price", TabUrl(c, "price"))
        /\ emitted[c][1]["specifications"]
               = [error |-> "timeout", url |-> TabUrl(c, "specs")]
        /\ emitted[c][1]["gallery"] = None
        /\ emitted[c][1]["brand"] = BaseInfo(c)["brand"]

\* ------------------------------------------------------------------- C10
\* C10: a car whose sub-task requests have all ended in handle_error has
\* exactly one record, in which every discovered key carries the error
\* placeholder of a failed request for that key: its URL and the error text.
C10_AllFailedEmitsOnce ==
    \A c \in CarIds :
        (Settled(c) /\ SubTasks(c) # {} /\ \A j \in SubTasks(c) : Failed(c, j))
        => /\ Len(emitted[c]) = 1
           /\ \A k \in DiscoveredKeys(c) :
                 emitted[c][1][k] \in
                     {[error |-> t, url |-> Url(c, j)] :
                         t \in ErrorTexts,
                         j \in {i \in SubTasks(c) : DataKey(site[c][i]) = k}}

\* ------------------------------------------------------------------- C11
\* The outcome that the fetch and the adapter delivered for a request, as
\* its completion saw it: a value, a failure, or an exception of the adapter.
OutcomeKind(c, j) ==
    CASE req[c][j] \in {"callback", "callback_KeyError"} -> "value"
      [] req[c][j] \in {"errback", "errback_KeyError"}   -> "failure"
      [] OTHER                                           -> req[c][j]

\* A value without the car it belongs to: the key of a base value, the tab
\* of a URL.
Shape(v) ==
    IF "url" \in DOMAIN v THEN [v EXCEPT !.url = @[2]]
    ELSE IF "car" \in DOMAIN v THEN [v EXCEPT !.car = "car"]
    ELSE v

RecordShape(r) == [k \in DOMAIN r |-> Shape(r[k])]

\* Two cars with the same tabs and the same outcome, value or failure, for
\* every sub-task, all of them processed.
SameOutcomes(c, d) ==
    /\ site[c] = site[d]
    /\ Settled(c) /\ Settled(d)
    /\ \A j \in SubTasks(c) :
          /\ OutcomeKind(c, j) \in {"value", "failure"}
          /\ OutcomeKind(c, j) = OutcomeKind(d, j)

\* C11: for fixed tabs and a fixed outcome per sub-task, the record yielded
\* once all completion events are processed is the same for every arrival
\* order: two cars that differ only in the order of their events end with
\* the same record.
C11_PermutationInvariance ==
    \A c \in CarIds : \A d \in CarIds :
        (SameOutcomes(c, d) /\ emitted[c] # <<>> /\ emitted[d] # <<>>)
        => RecordShape(Last(emitted[c])) = RecordShape(Last(emitted[d]))

\* ------------------------------------------------------------------- C12
\* C12: no data key of a car both holds an assembled value and is in the
\* car's pending set, and no key that a completion has removed from pending
\* is in pending again.
C12_PendingKeysAreUnresolved ==
    \A c \in CarIds : \A k \in car_data[c].pending :
        /\ k \in DOMAIN car_data[c].fields => car_data[c].fields[k] = None
        /\ \A j \in SubTasks(c) : DataKey(site[c][j]) = k => ~Resolved(c, j)

\* ------------------------------------------------------------------- C13
\* C13: no two sub-task requests dispatched for a car carry the same data
\* key.
C13_DispatchedKeysAreDistinct ==
    \A c \in CarIds : \A i \in TabIndexes(c) : \A j \in TabIndexes(c) :
        (i # j /\ req[c][i] # "none" /\ req[c][j] # "none")
        => DataKey(site[c][i]) # DataKey(site[c][j])

\* ------------------------------------------------------------------- C14
\* C14: a completion event whose data key is not in pending is processed
\* without raising an exception.
C14_StaleCompletionDoesNotRaise ==
    [][\A c \in CarIds : \A j \in TabIndexes(c) :
          (Completes(c, j) /\ Meta(c, j).data_key \notin car_data[c].pending)
          => req'[c][j] \notin {"callback_KeyError", "errback_KeyError",
                                "callback_ParserError"}]_vars

\* ------------------------------------------------------------------- C15
\* C15: the removal of a key from pending and the emptiness test that
\* follows are one step: a record is yielded for a car exactly in the step
\* that takes its pending set from non-empty to empty, and that step yields
\* one record.
C15_LastRemovalEmits ==
    [][\A c \in CarIds :
          /\ Emits(c) <=> (car_data[c].pending # {} /\ car_data'[c].pending = {})
          /\ Emits(c) => Len(emitted'[c]) = Len(emitted[c]) + 1]_vars

\* Two sub-task requests of a car were in flight together; one has been
\* resolved, the other is still pending, and no record has been yielded.
C15_Witness ==
    \E c \in CarIds : \E i \in SubTasks(c) : \E j \in SubTasks(c) :
        /\ Resolved(c, i)
        /\ req[c][j] = "inflight"
        /\ pc[c] = "done"
        /\ car_data[c].pending = {DataKey(site[c][j])}
        /\ emitted[c] = <<>>

\* ------------------------------------------------------------------- C16
\* This step is handle_error for the tab request j of the car.
Fails(c, j) ==
    /\ req[c][j] = "inflight"
    /\ req'[c][j] \in {"errback", "errback_KeyError"}

\* C16: a failure completion for data key k writes only the placeholder of
\* k and removes only k from pending; every other key keeps its value and
\* its pending membership, and the car is not aborted: its other requests
\* and its generator stay as they are.
C16_FailureIsolation ==
    [][\A c \in CarIds : \A j \in TabIndexes(c) :
          Fails(c, j) =>
             LET k == DataKey(site[c][j])
             IN  /\ car_data'[c].pending = car_data[c].pending \ {k}
                 /\ DOMAIN car_data'[c].fields = DOMAIN car_data[c].fields \cup {k}
                 /\ \E t \in ErrorTexts :
                       car_data'[c].fields[k] = [error |-> t, url |-> Url(c, j)]
                 /\ \A h \in DOMAIN car_data[c].fields \ {k} :
                       car_data'[c].fields[h] = car_data[c].fields[h]
                 /\ \A i \in Requests(c) \ {j} : req'[c][i] = req[c][i]
                 /\ pc'[c] = pc[c] /\ idx'[c] = idx[c]]_vars

\* A car with a failed sub-task and a sub-task resolved by its callback has
\* a record that holds the placeholder of the one and the value of the other.
C16_Witness ==
    \E c \in CarIds : \E i \in SubTasks(c) : \E j \in SubTasks(c) :
        /\ req[c][j] = "errback"
        /\ req[c][i] = "callback"
        /\ emitted[c] # <<>>
        /\ Last(emitted[c])[DataKey(site[c][j])]
               \in {[error |-> t, url |-> Url(c, j)] : t \in ErrorTexts}
        /\ Last(emitted[c])[DataKey(site[c][i])]
               = Extracted(Parser(site[c][i]), Url(c, i))

\* ------------------------------------------------------------------- C17
\* The tabs of a car whose id tab_mapping does not know.
UnknownTabs(c) == {j \in TabIndexes(c) : site[c][j] \notin DOMAIN tab_mapping}

\* C17 as claimed: no request is issued for a tab with an unknown id; once
\* parse_first_page has passed the tab its key holds an error placeholder
\* and is not pending.
C17_UnknownTabNotFetched ==
    \A c \in CarIds : \A j \in UnknownTabs(c) :
        /\ req[c][j] = "none"
        /\ idx[c] >= j =>
              /\ DataKey(site[c][j]) \notin car_data[c].pending
              /\ DataKey(site[c][j]) \in DOMAIN car_data[c].fields

\* C17 as amended: a request is issued for a tab with an unknown id as for
\* any other tab; its completion always resolves the key, to {error:
\* "Unknown tab type"} when the response arrives and to the failure
\* placeholder when the fetch fails, and the key is then not pending.
C17_UnknownTabResolvedByCompletion ==
    \A c \in CarIds : \A j \in UnknownTabs(c) :
        LET k == DataKey(site[c][j])
        IN  /\ idx[c] >= j => req[c][j] # "none"
            /\ req[c][j] = "inflight" => k \in car_data[c].pending
            /\ Completed(c, j) =>
                  /\ Resolved(c, j)
                  /\ k \notin car_data[c].pending
                  /\ req[c][j] = "callback" =>
                        car_data[c].fields[k] = [error |-> "Unknown tab type"]
                  /\ req[c][j] = "errback" =>
                        car_data[c].fields[k]
                           \in {[error |-> t, url |-> Url(c, j)] : t \in ErrorTexts}

\* The response of an unknown tab has arrived and its key holds the
\* "Unknown tab type" placeholder.
C17_Witness ==
    \E c \in CarIds : \E j \in UnknownTabs(c) :
        /\ req[c][j] = "callback"
        /\ car_data[c].fields[DataKey(site[c][j])] = [error |-> "Unknown tab type"]
        /\ DataKey(site[c][j]) \notin car_data[c].pending

\* ------------------------------------------------------------------- C18
\* C18: while a dispatched sub-task request of a car has had neither its
\* callback nor its errback, no record has been yielded for the car.
C18_NoRecordWhileInFlight ==
    \A c \in CarIds :
        (\E j \in SubTasks(c) : req[c][j] = "inflight") => emitted[c] = <<>>

\* ------------------------------------------------------------------- C19
\* C19: the tabs "model" and "compare" never cause a request and never
\* become pending keys, by their id or by their data key.
C19_SkippedTabsNeverDispatched ==
    \A c \in CarIds :
        /\ \A j \in TabIndexes(c) :
              site[c][j] \in {"model", "compare"} => req[c][j] = "none"
        /\ car_data[c].pending
              \cap {"model", "compare", DataKey("model"), DataKey("compare")} = {}

\* parse_first_page has run to its end on a page that lists both skipped
\* tabs and a tab it dispatched.
C19_Witness ==
    \E c \in CarIds :
        /\ pc[c] = "done"
        /\ {"model", "compare"} \subseteq {site[c][j] : j \in TabIndexes(c)}
        /\ \E j \in TabIndexes(c) : req[c][j] # "none"

\* ------------------------------------------------------------------- C20
\* This step is an event of the car: its first request, its discovery, or
\* a completion or failure of one of its requests.
EventOf(c) == req'[c] # req[c] \/ pc'[c] # pc[c] \/ idx'[c] # idx[c]

\* C20: an event of one car leaves the pending set, the collected fields
\* and the yielded records of every other car unchanged.
C20_CrossEntityIsolation ==
    [][\A a \in CarIds : \A b \in CarIds \ {a} :
          EventOf(a) => /\ car_data'[b] = car_data[b]
                        /\ emitted'[b] = emitted[b]]_vars

\* One car has its record while the other is still in assembly with a
\* pending key.
C20_Witness ==
    \E a \in CarIds : \E b \in CarIds \ {a} :
        /\ emitted[a] # <<>>
        /\ car_data[b].pending # {}
        /\ emitted[b] = <<>>
\* ------------------------------------------------------------------- C21
\* C21: a yielded record is a snapshot: no later step, among them a late or
\* repeated callback or errback that writes into car_data, changes the keys
\* or the top-level values of a record already yielded for the car.
C21_YieldedRecordsAreSnapshots ==
    [][\A c \in CarIds : \A n \in 1..Len(emitted[c]) :
          /\ Len(emitted'[c]) >= Len(emitted[c])
          /\ emitted'[c][n] = emitted[c][n]]_vars

\* After its record was yielded a completion has written a key of the car:
\* car_data holds a value for the key that the record does not hold.
C21_Witness ==
    \E c \in CarIds : \E k \in DOMAIN last_write[c] :
        /\ emitted[c] # <<>>
        /\ k \in DOMAIN emitted[c][1]
        /\ car_data[c].fields[k] = Outcome(c, last_write[c][k])
        /\ emitted[c][1][k] # car_data[c].fields[k]
\* ------------------------------------------------------------------- C22
\* The sub-task requests of a car that have been dispatched and have had
\* neither their callback nor their errback.
Outstanding(c) == {j \in SubTasks(c) : req[c][j] = "inflight"}

\* C22: in every reachable state the size of a car's pending set equals the
\* number of its dispatched sub-task requests for which no completion event
\* has been processed yet.
C22_PendingCountsOutstanding ==
    \A c \in CarIds :
        Cardinality(car_data[c].pending) = Cardinality(Outstanding(c))
====
